---- MODULE Spec2Model ----
(***************************************************************************)
(* Skill selection and dispatch as the notebooks of the repository run it: *)
(*   sementic_skill_selection.ipynb  flat semantic selection and dispatch  *)
(*   hierarchical_selection.ipynb    group -> tool selection and dispatch  *)
(*   calc_skill.ipynb                model-native function-calling loop    *)
(*   websurfing.ipynb                function-calling loop over one tool   *)
(* One behaviour is one kernel session of one notebook: the static         *)
(* configuration, the construction cells, then calls of the selection      *)
(* functions and runs of the dispatch cell.                                *)
(*                                                                         *)
(* Collaborators outside the repository are modelled at their interface:   *)
(* the embedder returns some vector of Vecs (or raises), the language      *)
(* model returns some response of Responses, a tool invocation ends in one *)
(* of InvokeOutcomes, and faiss.IndexFlatL2 ranks by squared L2 distance,  *)
(* pads a result shorter than k with position -1 and leaves the order of   *)
(* equal distances open.                                                   *)
(***************************************************************************)
EXTENDS Integers, Sequences, FiniteSets, TLC

\* ------------------------------------------------------------- bounds
\* Largest top_k a caller passes to a selection function.
MaxTopK == 2
\* Most tool calls the model emits in one function-calling answer.
MaxCalls == 2
\* Most requests one session of the function-calling notebook handles.
MaxRequests == 2

\* The top_k values a caller passes: 0 and a negative value are inputs too.
TopKs == -1..MaxTopK

\* ------------------------------------------------------------ vectors
\* Embeddings are 2-dimensional integer vectors; the set holds two directions
\* and one vector that is not of unit length.
Vecs == {<<1, 0>>, <<0, 1>>, <<2, 0>>}

\* A query is represented by the vector the embedder returns for its text.
Queries == {<<0, 1>>, <<2, 0>>}

Abs(x) == IF x < 0 THEN -x ELSE x

\* The Euclidean norm, exact on the vectors used here (one non-zero coordinate).
Norm(v) == CHOOSE n \in 0..(Abs(v[1]) + Abs(v[2])) : n * n = v[1] * v[1] + v[2] * v[2]

\* faiss.normalize_L2 on one row: in place, a zero row is left alone.
normalize_L2(v) == IF Norm(v) > 0 THEN <<v[1] \div Norm(v), v[2] \div Norm(v)>> ELSE v

\* The distance IndexFlatL2 reports: the squared L2 distance.
L2sqr(a, b) == (a[1] - b[1]) * (a[1] - b[1]) + (a[2] - b[2]) * (a[2] - b[2])

Min(a, b) == IF a < b THEN a ELSE b

\* ------------------------------------------------------- index search
\* Positions are 0-based as in the code; vecs[p + 1] is the vector at position p.
Positions(vecs) == 0..(Len(vecs) - 1)

DistAt(vecs, q, p) == L2sqr(vecs[p + 1], q)

\* The rankings of the Min(k, n) nearest stored vectors: distinct positions,
\* non-decreasing distance, nothing left out that is nearer than a chosen one.
Rankings(vecs, q, k) ==
    LET m == Min(k, Len(vecs))
    IN  { r \in [1..m -> Positions(vecs)] :
            /\ \A i, j \in 1..m : i # j => r[i] # r[j]
            /\ \A i, j \in 1..m : i < j => DistAt(vecs, q, r[i]) <= DistAt(vecs, q, r[j])
            /\ \A p \in Positions(vecs) :
                 (\A i \in 1..m : r[i] # p) =>
                    \A i \in 1..m : DistAt(vecs, q, r[i]) <= DistAt(vecs, q, p) }

\* index.search(q, k) for k >= 1: the row I[0], k slots, padded with -1.
Search(vecs, q, k) ==
    { [i \in 1..k |-> IF i <= Len(r) THEN r[i] ELSE -1] : r \in Rankings(vecs, q, k) }

\* The errors index.search raises for k <= 0 (the wrapper asserts k > 0; a build
\* without the assertion fails on a negative array size).
SearchErrors(k) == IF k < 0 THEN {"AssertionError", "ValueError"} ELSE {"AssertionError"}

\* Python's list[idx]: a negative idx counts from the end.
PyIndex(list, idx) == IF idx < 0 THEN list[Len(list) + idx + 1] ELSE list[idx + 1]

\* ------------------------------------------- static configuration (flat)
\* tool_descriptions of the semantic notebook, in dictionary order.
AllTools == <<"query_wolfram_alpha", "trigger_zapier_webhook", "send_slack_message">>

ToolSet == {AllTools[i] : i \in 1..Len(AllTools)}

\* The registries the construction cells are run on: the notebook's three
\* descriptions, and the shorter registries down to the empty one.
FlatConfigs == {SubSeq(AllTools, 1, n) : n \in 0..Len(AllTools)}

\* A position -> tool name dictionary written in the wrong order.
index_to_tool_reversed == [p \in 0..2 |-> AllTools[3 - p]]

\* index_to_tool, the hand-written position -> tool name dictionary.
index_to_tool == [p \in 0..2 |-> AllTools[p + 1]]

\* ---------------------------------------- static configuration (groups)
AllGroups == <<"Computation", "Automation", "Communication">>

\* tool_groups after the cell that appends the tools: the notebook's assignment
\* (one tool per group), no group at all, and an assignment that leaves one
\* group without a member and gives another two members.
HierConfigs ==
    { <<>>,
      << [name |-> "Computation", tools |-> <<"query_wolfram_alpha">>],
         [name |-> "Automation", tools |-> <<"trigger_zapier_webhook">>],
         [name |-> "Communication", tools |-> <<"send_slack_message">>] >>,
      << [name |-> "Computation", tools |-> <<"query_wolfram_alpha", "trigger_zapier_webhook">>],
         [name |-> "Automation", tools |-> <<>>],
         [name |-> "Communication", tools |-> <<"send_slack_message">>] >> }

\* ---------------------------------------------------------------- state
VARIABLES
    nb,                \* the notebook this session runs
    tool_descriptions, \* semantic: the registry's tool names, in order
    tool_groups,       \* hierarchical: the groups with their tools
    built,             \* construction cells: "no", "ok" or "failed"
    construction_error, \* the exception a construction cell ended with, or "none"
    index,             \* semantic: the FAISS index (defined, vecs)
    group_names,       \* hierarchical: position -> group name
    group_index,       \* hierarchical: the group-level index
    tool_indices,      \* hierarchical: group name -> (vecs, functions)
    call,              \* the last direct call of a selection function
    pc,                \* where the dispatch cell stands
    user_query,        \* the request's query
    selected_group,    \* hierarchical: selected_groups[0]
    selected_tools,    \* what selection returned (calc: ai_msg.tool_calls)
    args,              \* the bound arguments
    printed,           \* the lines the dispatch cell printed, in order
    messages,          \* calc: the message list
    error,             \* the exception that ended the cell, or "none"
    nembed,            \* embedder calls of this request
    nbind,             \* determine_parameters calls of this request
    ninvoke,           \* tool invocations attempted in this request
    ncompose,          \* final-answer compositions of this request
    nrequest           \* calc: how many times the query cell has been run

regVars == <<nb, tool_descriptions, tool_groups, built, construction_error, index, group_names, group_index, tool_indices>>

reqVars == <<pc, user_query, selected_group, selected_tools, args, printed, messages, error, nembed, nbind, ninvoke, ncompose>>

vars == <<nb, tool_descriptions, tool_groups, built, construction_error, index, group_names, group_index, tool_indices, call, pc, user_query, selected_group, selected_tools, args, printed, messages, error, nembed, nbind, ninvoke, ncompose, nrequest>>

NoIndex == [defined |-> FALSE, vecs |-> <<>>]

NoCall == [fn |-> "none", query |-> <<0, 0>>, group |-> "", top_k |-> 0, err |-> "none", I |-> <<>>, out |-> <<>>, embeds |-> 0]

NoQuery == <<0, 0>>

NoArgs == [p \in {} |-> ""]

Init ==
    /\ nb \in {"semantic", "hierarchical", "calc", "websurfing"}
    /\ tool_descriptions \in (IF nb = "semantic" THEN FlatConfigs ELSE {<<>>})
    /\ tool_groups \in (IF nb = "hierarchical" THEN HierConfigs ELSE {<<>>})
    /\ built = "no"
    /\ construction_error = "none"
    /\ index = NoIndex
    /\ group_names = <<>>
    /\ group_index = NoIndex
    /\ tool_indices = [g \in {} |-> NoIndex]
    /\ call = NoCall
    /\ pc = "idle"
    /\ user_query = NoQuery
    /\ selected_group = ""
    /\ selected_tools = <<>>
    /\ args = NoArgs
    /\ printed = <<>>
    /\ messages = <<>>
    /\ error = "none"
    /\ nembed = 0
    /\ nbind = 0
    /\ ninvoke = 0
    /\ ncompose = 0
    /\ nrequest = 0

\* A new request or call starts from a kernel in which the last cell has ended.
CellEnded == pc \in {"idle", "done", "crashed"}

\* ------------------------------------------------ semantic: construction
\* Cells 34-38: embed every description, take the dimension from the first
\* embedding, normalize a temporary copy, add the embeddings as they are.
BuildFlat ==
    /\ nb = "semantic"
    /\ built = "no"
    /\ \E tool_embeddings \in [1..Len(tool_descriptions) -> Vecs] :
         IF Len(tool_embeddings) = 0
         THEN /\ built' = "failed"
              /\ construction_error' = "IndexError"
              /\ index' = NoIndex
         ELSE /\ built' = "ok"
              /\ construction_error' = "none"
              /\ index' = [defined |-> TRUE, vecs |-> tool_embeddings]
    /\ UNCHANGED <<nb, tool_descriptions, tool_groups, group_names, group_index, tool_indices, call>>
    /\ UNCHANGED reqVars
    /\ UNCHANGED nrequest

\* ---------------------------------------------------- semantic: select
\* The comprehension of select_tool: positions that are keys of index_to_tool.
FlatHits(I) == SelectSeq(I, LAMBDA idx : idx \in DOMAIN index_to_tool)

\* select_tool(query, top_k): the outcomes of one call (the embedder may raise,
\* the search leaves the order of ties open).
select_tool(idx, query, top_k, embed_ok) ==
    IF ~embed_ok
    THEN {[err |-> "EmbedderError", I |-> <<>>, out |-> <<>>, embeds |-> 1]}
    ELSE IF ~idx.defined
    THEN {[err |-> "NameError", I |-> <<>>, out |-> <<>>, embeds |-> 1]}
    ELSE IF top_k <= 0
    THEN {[err |-> e, I |-> <<>>, out |-> <<>>, embeds |-> 1] : e \in SearchErrors(top_k)}
    ELSE {[err |-> "none", I |-> r,
           out |-> [i \in 1..Len(FlatHits(r)) |-> index_to_tool[FlatHits(r)[i]]],
           embeds |-> 1] : r \in Search(idx.vecs, normalize_L2(query), top_k)}

ResetRequest ==
    /\ pc' = "idle"
    /\ user_query' = NoQuery
    /\ selected_group' = ""
    /\ selected_tools' = <<>>
    /\ args' = NoArgs
    /\ printed' = <<>>
    /\ messages' = <<>>
    /\ error' = "none"
    /\ nembed' = 0
    /\ nbind' = 0
    /\ ninvoke' = 0
    /\ ncompose' = 0

\* A select_tool that normalizes the stored embeddings in place on every call.
CallSelectToolNormalizingStore ==
    /\ nb = "semantic"
    /\ built # "no"
    /\ CellEnded
    /\ \E q \in Queries, k \in TopKs, ok \in BOOLEAN :
         \E o \in select_tool(index, q, k, ok) :
            call' = [fn |-> "select_tool", query |-> q, group |-> "", top_k |-> k,
                     err |-> o.err, I |-> o.I, out |-> o.out, embeds |-> o.embeds]
    /\ ResetRequest
    /\ index' = [index EXCEPT !.vecs = [i \in 1..Len(index.vecs) |-> normalize_L2(index.vecs[i])]]
    /\ UNCHANGED <<nb, tool_descriptions, tool_groups, built, construction_error, group_names, group_index, tool_indices>>
    /\ UNCHANGED nrequest

\* A direct call select_tool(query, top_k) of the semantic notebook.
CallSelectTool ==
    /\ nb = "semantic"
    /\ built # "no"
    /\ CellEnded
    /\ \E q \in Queries, k \in TopKs, ok \in BOOLEAN :
         \E o \in select_tool(index, q, k, ok) :
            call' = [fn |-> "select_tool", query |-> q, group |-> "", top_k |-> k,
                     err |-> o.err, I |-> o.I, out |-> o.out, embeds |-> o.embeds]
    /\ ResetRequest
    /\ UNCHANGED regVars
    /\ UNCHANGED nrequest

\* ------------------------------------------------------ semantic: bind
PayloadKeys == {"expression", "zap_id", "payload", "channel", "message", "extra"}

\* What the language model answers: text that is no JSON, a JSON value that is
\* no object, or a JSON object with some keys.
Responses ==
    {[kind |-> "text", keys |-> {}], [kind |-> "scalar", keys |-> {}]}
        \cup {[kind |-> "object", keys |-> S] : S \in SUBSET PayloadKeys}

\* response_data.get(key, default): "model" stands for the value the model gave.
Get(response, key, default) == IF key \in response.keys THEN "model" ELSE default

\* The parameters each tool declares: the signatures of the @tool functions.
ParameterSchema(tool_name) ==
    CASE tool_name = "query_wolfram_alpha" -> {"expression"}
      [] tool_name = "trigger_zapier_webhook" -> {"zap_id", "payload"}
      [] tool_name = "send_slack_message" -> {"channel", "message"}
      [] OTHER -> {}

\* A bind that hands the model's payload through unfiltered.
determine_parameters_unfiltered(query, tool_name, response) ==
    IF response.kind = "text"
    THEN [err |-> "JSONDecodeError", parameters |-> NoArgs]
    ELSE IF response.kind = "scalar"
    THEN [err |-> "AttributeError", parameters |-> NoArgs]
    ELSE [err |-> "none", parameters |-> [p \in response.keys |-> "model"]]

\* determine_parameters(query, tool_name) on the model's response.
determine_parameters(query, tool_name, response) ==
    IF response.kind = "text"
    THEN [err |-> "JSONDecodeError", parameters |-> NoArgs]
    ELSE IF response.kind = "scalar"
    THEN [err |-> "AttributeError", parameters |-> NoArgs]
    ELSE [err |-> "none", parameters |->
            CASE tool_name = "query_wolfram_alpha" ->
                    [p \in {"expression"} |-> Get(response, "expression", "None")]
              [] tool_name = "trigger_zapier_webhook" ->
                    [p \in {"zap_id", "payload"} |->
                        IF p = "zap_id" THEN Get(response, "zap_id", "123456")
                        ELSE Get(response, "payload", "data=query")]
              [] tool_name = "send_slack_message" ->
                    [p \in {"channel", "message"} |->
                        IF p = "channel" THEN Get(response, "channel", "#general")
                        ELSE Get(response, "message", "query")]
              [] OTHER -> NoArgs]

\* How an invocation of a tool ends: a value, the ValueError the tools raise
\* for an API failure, or any other exception.
InvokeOutcomes == {"ok", "ValueError", "OtherError"}

\* --------------------------------------------- semantic: the dispatch cell
\* select_tool(user_query, top_k=1) and tool_name = selected_tools[0] or None.
SemSelect ==
    /\ nb = "semantic"
    /\ built # "no"
    /\ CellEnded
    /\ \E q \in Queries, ok \in BOOLEAN :
         \E o \in select_tool(index, q, 1, ok) :
            /\ user_query' = q
            /\ nembed' = o.embeds
            /\ selected_tools' = o.out
            /\ IF o.err # "none"
               THEN /\ pc' = "crashed"
                    /\ error' = o.err
                    /\ printed' = <<>>
               ELSE IF o.out = <<>>
               THEN /\ pc' = "done"
                    /\ error' = "none"
                    /\ printed' = <<[tool |-> "", kind |-> "no_tool"]>>
               ELSE /\ pc' = "bind"
                    /\ error' = "none"
                    /\ printed' = <<>>
    /\ selected_group' = ""
    /\ args' = NoArgs
    /\ messages' = <<>>
    /\ nbind' = 0
    /\ ninvoke' = 0
    /\ ncompose' = 0
    /\ call' = NoCall
    /\ UNCHANGED regVars
    /\ UNCHANGED nrequest

\* args = determine_parameters(user_query, tool_name); its exception ends the cell.
SemBind ==
    /\ nb = "semantic"
    /\ pc = "bind"
    /\ \E response \in Responses :
         LET b == determine_parameters(user_query, selected_tools[1], response)
         IN  /\ nbind' = nbind + 1
             /\ args' = b.parameters
             /\ IF b.err # "none"
                THEN pc' = "crashed" /\ error' = b.err
                ELSE pc' = "invoke" /\ error' = "none"
    /\ UNCHANGED <<user_query, selected_group, selected_tools, printed, messages, nembed, ninvoke, ncompose, call>>
    /\ UNCHANGED regVars
    /\ UNCHANGED nrequest

\* try: globals()[tool_name].invoke(args) ... except ValueError.
SemInvoke ==
    /\ nb = "semantic"
    /\ pc = "invoke"
    /\ \E outcome \in InvokeOutcomes :
         /\ ninvoke' = ninvoke + 1
         /\ CASE outcome = "ok" ->
                    /\ printed' = Append(printed, [tool |-> selected_tools[1], kind |-> "result"])
                    /\ pc' = "done"
                    /\ error' = "none"
              [] outcome = "ValueError" ->
                    /\ printed' = Append(printed, [tool |-> selected_tools[1], kind |-> "error"])
                    /\ pc' = "done"
                    /\ error' = "none"
              [] OTHER ->
                    /\ printed' = printed
                    /\ pc' = "crashed"
                    /\ error' = outcome
    /\ UNCHANGED <<user_query, selected_group, selected_tools, args, messages, nembed, nbind, ncompose, call>>
    /\ UNCHANGED regVars
    /\ UNCHANGED nrequest

\* -------------------------------------------- hierarchical: construction
\* Group names collected in the reverse of the order of the embeddings.
GroupNamesReversed(groups) == [i \in 1..Len(groups) |-> groups[Len(groups) + 1 - i].name]

\* group_names: appended in the loop that appends the group embeddings.
GroupNamesOf(groups) == [i \in 1..Len(groups) |-> groups[i].name]

\* The groups that get an entry in tool_indices: those with a description list
\* that is not empty.
IndexedGroups(groups) == {groups[i].name : i \in {j \in 1..Len(groups) : groups[j].tools # <<>>}}

GroupTools(groups, name) == (CHOOSE g \in {groups[i] : i \in 1..Len(groups)} : g.name = name).tools

\* The group and tool_indices cells: group embeddings normalized and added to
\* group_index (dimension from the first one), then one index per group that
\* has tools, over the normalized embeddings of its tools.
BuildHier ==
    /\ nb = "hierarchical"
    /\ built = "no"
    /\ \E group_embeddings \in [1..Len(tool_groups) -> Vecs], tool_embeddings \in [ToolSet -> Vecs] :
         /\ group_names' = GroupNamesOf(tool_groups)
         /\ IF Len(group_embeddings) = 0
            THEN /\ built' = "failed"
                 /\ construction_error' = "IndexError"
                 /\ group_index' = NoIndex
            ELSE /\ built' = "ok"
                 /\ construction_error' = "none"
                 /\ group_index' = [defined |-> TRUE,
                                    vecs |-> [i \in 1..Len(group_embeddings) |-> normalize_L2(group_embeddings[i])]]
         /\ tool_indices' =
                [g \in IndexedGroups(tool_groups) |->
                    [vecs |-> [i \in 1..Len(GroupTools(tool_groups, g)) |->
                                 normalize_L2(tool_embeddings[GroupTools(tool_groups, g)[i]])],
                     functions |-> GroupTools(tool_groups, g)]]
    /\ UNCHANGED <<nb, tool_descriptions, tool_groups, index, call>>
    /\ UNCHANGED reqVars
    /\ UNCHANGED nrequest

\* ------------------------------------------------ hierarchical: select
\* select_group(query, top_k): every slot of I[0] indexes group_names.
select_group(gidx, names, query, top_k, embed_ok) ==
    IF ~embed_ok
    THEN {[err |-> "EmbedderError", I |-> <<>>, out |-> <<>>, embeds |-> 1]}
    ELSE IF ~gidx.defined
    THEN {[err |-> "NameError", I |-> <<>>, out |-> <<>>, embeds |-> 1]}
    ELSE IF top_k <= 0
    THEN {[err |-> e, I |-> <<>>, out |-> <<>>, embeds |-> 1] : e \in SearchErrors(top_k)}
    ELSE {[err |-> "none", I |-> r,
           out |-> [i \in 1..Len(r) |-> PyIndex(names, r[i])],
           embeds |-> 1] : r \in Search(gidx.vecs, normalize_L2(query), top_k)}

\* A lookup that ignores the group name and searches some group's entry.
ToolInfoAnyGroup(tis, group_name) == tis[CHOOSE g \in DOMAIN tis : g # group_name \/ Cardinality(DOMAIN tis) = 1]

\* The entry of tool_indices that select_tool searches for a group name.
ToolInfo(tis, group_name) == tis[group_name]

\* The comprehension of the hierarchical select_tool: idx < len(functions).
HierHits(I, functions) == SelectSeq(I, LAMBDA idx : idx < Len(functions))

\* select_tool(query, group_name, top_k) of the hierarchical notebook: the
\* lookup of the group comes first, then the embedding and the search.
select_tool_h(tis, query, group_name, top_k, embed_ok) ==
    IF group_name \notin DOMAIN tis
    THEN {[err |-> "KeyError", I |-> <<>>, out |-> <<>>, embeds |-> 0]}
    ELSE IF ~embed_ok
    THEN {[err |-> "EmbedderError", I |-> <<>>, out |-> <<>>, embeds |-> 1]}
    ELSE IF top_k <= 0
    THEN {[err |-> e, I |-> <<>>, out |-> <<>>, embeds |-> 1] : e \in SearchErrors(top_k)}
    ELSE LET tool_info == ToolInfo(tis, group_name)
         IN  {[err |-> "none", I |-> r,
               out |-> [i \in 1..Len(HierHits(r, tool_info.functions)) |->
                          PyIndex(tool_info.functions, HierHits(r, tool_info.functions)[i])],
               embeds |-> 1] : r \in Search(tool_info.vecs, normalize_L2(query), top_k)}

GroupSet == {AllGroups[i] : i \in 1..Len(AllGroups)}

\* A direct call select_group(query, top_k).
CallSelectGroup ==
    /\ nb = "hierarchical"
    /\ built # "no"
    /\ CellEnded
    /\ \E q \in Queries, k \in TopKs, ok \in BOOLEAN :
         \E o \in select_group(group_index, group_names, q, k, ok) :
            call' = [fn |-> "select_group", query |-> q, group |-> "", top_k |-> k,
                     err |-> o.err, I |-> o.I, out |-> o.out, embeds |-> o.embeds]
    /\ ResetRequest
    /\ UNCHANGED regVars
    /\ UNCHANGED nrequest

\* A direct call select_tool(query, group_name, top_k).
CallSelectToolInGroup ==
    /\ nb = "hierarchical"
    /\ built # "no"
    /\ CellEnded
    /\ \E q \in Queries, g \in GroupSet, k \in TopKs, ok \in BOOLEAN :
         \E o \in select_tool_h(tool_indices, q, g, k, ok) :
            call' = [fn |-> "select_tool", query |-> q, group |-> g, top_k |-> k,
                     err |-> o.err, I |-> o.I, out |-> o.out, embeds |-> o.embeds]
    /\ ResetRequest
    /\ UNCHANGED regVars
    /\ UNCHANGED nrequest

\* ----------------------------------------- hierarchical: the dispatch cell
\* selected_groups = select_group(user_query, top_k=1); the first one is taken.
HierSelectGroup ==
    /\ nb = "hierarchical"
    /\ built # "no"
    /\ CellEnded
    /\ \E q \in Queries, ok \in BOOLEAN :
         \E o \in select_group(group_index, group_names, q, 1, ok) :
            /\ user_query' = q
            /\ nembed' = o.embeds
            /\ IF o.err # "none"
               THEN /\ pc' = "crashed"
                    /\ error' = o.err
                    /\ printed' = <<>>
                    /\ selected_group' = ""
               ELSE IF o.out = <<>>
               THEN /\ pc' = "done"
                    /\ error' = "none"
                    /\ printed' = <<[tool |-> "", kind |-> "no_group"]>>
                    /\ selected_group' = ""
               ELSE /\ pc' = "select_tool"
                    /\ error' = "none"
                    /\ printed' = <<[tool |-> o.out[1], kind |-> "group"]>>
                    /\ selected_group' = o.out[1]
    /\ selected_tools' = <<>>
    /\ args' = NoArgs
    /\ messages' = <<>>
    /\ nbind' = 0
    /\ ninvoke' = 0
    /\ ncompose' = 0
    /\ call' = NoCall
    /\ UNCHANGED regVars
    /\ UNCHANGED nrequest

\* The arguments the dispatch cell prepares for the selected tool.
PrepareArgs(selected_tool) ==
    CASE selected_tool = "query_wolfram_alpha" -> [p \in {"expression"} |-> "query"]
      [] selected_tool = "trigger_zapier_webhook" ->
            [p \in {"zap_id", "payload"} |-> IF p = "zap_id" THEN "123456" ELSE "message=query"]
      [] selected_tool = "send_slack_message" ->
            [p \in {"channel", "message"} |-> IF p = "channel" THEN "#general" ELSE "query"]
      [] OTHER -> NoArgs

\* selected_tools = select_tool(user_query, selected_group, top_k=1), then the
\* arguments of selected_tools[0].
HierSelectTool ==
    /\ nb = "hierarchical"
    /\ pc = "select_tool"
    /\ \E ok \in BOOLEAN :
         \E o \in select_tool_h(tool_indices, user_query, selected_group, 1, ok) :
            /\ nembed' = nembed + o.embeds
            /\ selected_tools' = o.out
            /\ IF o.err # "none"
               THEN /\ pc' = "crashed"
                    /\ error' = o.err
                    /\ printed' = printed
                    /\ args' = NoArgs
               ELSE IF o.out = <<>>
               THEN /\ pc' = "done"
                    /\ error' = "none"
                    /\ printed' = Append(printed, [tool |-> "", kind |-> "no_tool"])
                    /\ args' = NoArgs
               ELSE /\ pc' = "invoke"
                    /\ error' = "none"
                    /\ printed' = Append(printed, [tool |-> o.out[1], kind |-> "tool"])
                    /\ args' = PrepareArgs(o.out[1])
    /\ UNCHANGED <<user_query, selected_group, messages, nbind, ninvoke, ncompose, call>>
    /\ UNCHANGED regVars
    /\ UNCHANGED nrequest

\* try: selected_tool.invoke(args) ... except ValueError.
HierInvoke ==
    /\ nb = "hierarchical"
    /\ pc = "invoke"
    /\ \E outcome \in InvokeOutcomes :
         /\ ninvoke' = ninvoke + 1
         /\ CASE outcome = "ok" ->
                    /\ printed' = Append(printed, [tool |-> selected_tools[1], kind |-> "result"])
                    /\ pc' = "done"
                    /\ error' = "none"
              [] outcome = "ValueError" ->
                    /\ printed' = Append(printed, [tool |-> selected_tools[1], kind |-> "error"])
                    /\ pc' = "done"
                    /\ error' = "none"
              [] OTHER ->
                    /\ printed' = printed
                    /\ pc' = "crashed"
                    /\ error' = outcome
    /\ UNCHANGED <<user_query, selected_group, selected_tools, args, messages, nembed, nbind, ncompose, call>>
    /\ UNCHANGED regVars
    /\ UNCHANGED nrequest

\* ------------------------------------------- calc: function-calling loop
\* The dictionary of the loop: lower-case name -> tool.
CalcTools == {"add", "multiply", "exponentiate"}

\* The names a tool call of the model may carry: registered names, one in
\* another case, and one that is not registered.
CallNames == {"add", "Multiply", "exponentiate", "divide"}

\* str.lower() on the names above.
Lower(name) == IF name = "Multiply" THEN "multiply" ELSE name

ToolCallSeqs == UNION {[1..n -> CallNames] : n \in 0..MaxCalls}

\* The tool messages appended so far: everything after the user's message and
\* the model's message.
ToolMessages(msgs) == SubSeq(msgs, 3, Len(msgs))

\* A query cell that appends the new question to the existing message list.
CalcAskAppending ==
    /\ nb = "calc"
    /\ CellEnded
    /\ nrequest < MaxRequests
    /\ nrequest' = nrequest + 1
    /\ \E q \in Queries, tool_calls \in ToolCallSeqs :
         /\ user_query' = q
         /\ selected_tools' = tool_calls
         /\ messages' = messages \o
                        <<[role |-> "human", name |-> "", call |-> 0, req |-> nrequest + 1],
                          [role |-> "ai", name |-> "", call |-> 0, req |-> nrequest + 1]>>
    /\ pc' = "loop"
    /\ selected_group' = ""
    /\ args' = NoArgs
    /\ printed' = <<>>
    /\ error' = "none"
    /\ nembed' = 0
    /\ nbind' = 0
    /\ ninvoke' = 0
    /\ ncompose' = 0
    /\ UNCHANGED call
    /\ UNCHANGED regVars

\* query = ...; messages = [HumanMessage(query)]; ai_msg = llm_with_tools.invoke(messages);
\* messages.append(ai_msg). Every message carries the number of the request it
\* was created for.
CalcAsk ==
    /\ nb = "calc"
    /\ CellEnded
    /\ nrequest < MaxRequests
    /\ nrequest' = nrequest + 1
    /\ \E q \in Queries, tool_calls \in ToolCallSeqs :
         /\ user_query' = q
         /\ selected_tools' = tool_calls
         /\ messages' = <<[role |-> "human", name |-> "", call |-> 0, req |-> nrequest + 1],
                          [role |-> "ai", name |-> "", call |-> 0, req |-> nrequest + 1]>>
    /\ pc' = "loop"
    /\ selected_group' = ""
    /\ args' = NoArgs
    /\ printed' = <<>>
    /\ error' = "none"
    /\ nembed' = 0
    /\ nbind' = 0
    /\ ninvoke' = 0
    /\ ncompose' = 0
    /\ UNCHANGED call
    /\ UNCHANGED regVars

\* One pass of "for tool_call in ai_msg.tool_calls": look the tool up by the
\* lower-cased name, invoke it, print and append its message. No exception is
\* caught.
CalcStep ==
    /\ nb = "calc"
    /\ pc = "loop"
    /\ Len(ToolMessages(messages)) < Len(selected_tools)
    /\ LET i == Len(ToolMessages(messages)) + 1
           tool_call == selected_tools[i]
       IN  IF Lower(tool_call) \notin CalcTools
           THEN /\ pc' = "crashed"
                /\ error' = "KeyError"
                /\ UNCHANGED <<messages, printed, ninvoke>>
           ELSE \E outcome \in InvokeOutcomes :
                  /\ ninvoke' = ninvoke + 1
                  /\ IF outcome = "ok"
                     THEN /\ messages' = Append(messages, [role |-> "tool", name |-> Lower(tool_call), call |-> i, req |-> nrequest])
                          /\ printed' = Append(printed, [tool |-> Lower(tool_call), kind |-> "result"])
                          /\ pc' = "loop"
                          /\ error' = "none"
                     ELSE /\ pc' = "crashed"
                          /\ error' = outcome
                          /\ UNCHANGED <<messages, printed>>
    /\ UNCHANGED <<user_query, selected_group, selected_tools, args, nembed, nbind, ncompose, call>>
    /\ UNCHANGED regVars
    /\ UNCHANGED nrequest

\* A composition step that first invokes a default tool when no tool was called.
CalcFinalWithDefaultTool ==
    /\ nb = "calc"
    /\ pc = "loop"
    /\ Len(ToolMessages(messages)) = Len(selected_tools)
    /\ ncompose' = ncompose + 1
    /\ ninvoke' = IF selected_tools = <<>> THEN ninvoke + 1 ELSE ninvoke
    /\ printed' = Append(printed, [tool |-> "", kind |-> "answer"])
    /\ pc' = "done"
    /\ UNCHANGED <<user_query, selected_group, selected_tools, args, messages, error, nembed, nbind, call>>
    /\ UNCHANGED regVars
    /\ UNCHANGED nrequest

\* final_response = llm_with_tools.invoke(messages), the cell after the loop.
CalcFinal ==
    /\ nb = "calc"
    /\ pc = "loop"
    /\ Len(ToolMessages(messages)) = Len(selected_tools)
    /\ ncompose' = ncompose + 1
    /\ printed' = Append(printed, [tool |-> "", kind |-> "answer"])
    /\ pc' = "done"
    /\ UNCHANGED <<user_query, selected_group, selected_tools, args, messages, error, nembed, nbind, ninvoke, call>>
    /\ UNCHANGED regVars
    /\ UNCHANGED nrequest

\* ------------------------------------- websurfing: function-calling loop
\* The name of the one tool the model is bound to (WikipediaQueryRun).
WebTool == "wikipedia"

\* The names a tool call of the model may carry: the bound tool's name and one
\* that is not bound.
WebCallNames == {"wikipedia", "calculator"}

WebToolCallSeqs == UNION {[1..n -> WebCallNames] : n \in 0..MaxCalls}

\* messages = [HumanMessage(...)]; ai_msg = llm_with_tools.invoke(messages);
\* messages.append(ai_msg).
WebAsk ==
    /\ nb = "websurfing"
    /\ CellEnded
    /\ nrequest < MaxRequests
    /\ nrequest' = nrequest + 1
    /\ \E q \in Queries, tool_calls \in WebToolCallSeqs :
         /\ user_query' = q
         /\ selected_tools' = tool_calls
         /\ messages' = <<[role |-> "human", name |-> "", call |-> 0, req |-> nrequest + 1],
                          [role |-> "ai", name |-> "", call |-> 0, req |-> nrequest + 1]>>
    /\ pc' = "loop"
    /\ selected_group' = ""
    /\ args' = NoArgs
    /\ printed' = <<>>
    /\ error' = "none"
    /\ nembed' = 0
    /\ nbind' = 0
    /\ ninvoke' = 0
    /\ ncompose' = 0
    /\ UNCHANGED call
    /\ UNCHANGED regVars

\* One pass of "for tool_call in ai_msg.tool_calls": tool.invoke(tool_call) on
\* the one tool, whatever name the call carries; the tool message bears the
\* tool's name. No exception is caught.
WebStep ==
    /\ nb = "websurfing"
    /\ pc = "loop"
    /\ Len(ToolMessages(messages)) < Len(selected_tools)
    /\ LET i == Len(ToolMessages(messages)) + 1
       IN  \E outcome \in InvokeOutcomes :
              /\ ninvoke' = ninvoke + 1
              /\ IF outcome = "ok"
                 THEN /\ messages' = Append(messages, [role |-> "tool", name |-> WebTool, call |-> i, req |-> nrequest])
                      /\ printed' = Append(printed, [tool |-> WebTool, kind |-> "result"])
                      /\ pc' = "loop"
                      /\ error' = "none"
                 ELSE /\ pc' = "crashed"
                      /\ error' = outcome
                      /\ UNCHANGED <<messages, printed>>
    /\ UNCHANGED <<user_query, selected_group, selected_tools, args, nembed, nbind, ncompose, call>>
    /\ UNCHANGED regVars
    /\ UNCHANGED nrequest

\* final_response = llm_with_tools.invoke(messages), after the loop in the
\* same cell.
WebFinal ==
    /\ nb = "websurfing"
    /\ pc = "loop"
    /\ Len(ToolMessages(messages)) = Len(selected_tools)
    /\ ncompose' = ncompose + 1
    /\ printed' = Append(printed, [tool |-> "", kind |-> "answer"])
    /\ pc' = "done"
    /\ UNCHANGED <<user_query, selected_group, selected_tools, args, messages, error, nembed, nbind, ninvoke, call>>
    /\ UNCHANGED regVars
    /\ UNCHANGED nrequest

Next ==
    \/ BuildFlat
    \/ CallSelectTool
    \/ SemSelect
    \/ SemBind
    \/ SemInvoke
    \/ BuildHier
    \/ CallSelectGroup
    \/ CallSelectToolInGroup
    \/ HierSelectGroup
    \/ HierSelectTool
    \/ HierInvoke
    \/ CalcAsk
    \/ CalcStep
    \/ CalcFinal
    \/ WebAsk
    \/ WebStep
    \/ WebFinal

Spec == Init /\ [][Next]_vars

\* ===================================================================
\* Properties
\* ===================================================================
Last(s) == s[Len(s)]

\* The request's cell has ended, normally or with an exception.
RequestEnded == pc \in {"done", "crashed"}

\* The outcome entries of the request's transcript, one per attempted skill:
\* the tool messages (calc) or the printed result and error lines.
OutcomeEntries ==
    IF nb = "calc"
    THEN [i \in 1..Len(ToolMessages(messages)) |-> ToolMessages(messages)[i].name]
    ELSE LET lines == SelectSeq(printed, LAMBDA l : l.kind \in {"result", "error"})
         IN  [i \in 1..Len(lines) |-> lines[i].tool]

\* The selected skills by name, in rank order.
SelectedNames == [i \in 1..Len(selected_tools) |-> Lower(selected_tools[i])]

\* C1: in hierarchical mode every skill that select_tool returns for a group,
\* in a direct call or in the dispatch cell after select_group chose the group
\* for the same query, is a member of that group in the configuration.
C1_SkillInSelectedGroup ==
    /\ (nb = "hierarchical" /\ call.fn = "select_tool" /\ call.err = "none") =>
            \A i \in 1..Len(call.out) :
                \E j \in 1..Len(GroupTools(tool_groups, call.group)) :
                    GroupTools(tool_groups, call.group)[j] = call.out[i]
    /\ (nb = "hierarchical" /\ selected_tools # <<>>) =>
            /\ \E p \in 1..Len(group_names) :
                /\ group_names[p] = selected_group
                /\ \A p2 \in 1..Len(group_names) :
                      L2sqr(group_index.vecs[p], normalize_L2(user_query))
                          <= L2sqr(group_index.vecs[p2], normalize_L2(user_query))
            /\ \A i \in 1..Len(selected_tools) :
                \E j \in 1..Len(GroupTools(tool_groups, selected_group)) :
                    GroupTools(tool_groups, selected_group)[j] = selected_tools[i]

\* C1 witness: the dispatch cell selected the second member of a group with
\* two members and is about to invoke it.
C1_Witness ==
    /\ nb = "hierarchical"
    /\ pc = "invoke"
    /\ selected_group = "Computation"
    /\ selected_tools = <<"trigger_zapier_webhook">>
    /\ Len(tool_groups) = 3

\* C2 (the claim as stated): when the dispatch of a request with selected
\* skills has ended, every selected skill has exactly one outcome entry in
\* the transcript, the entries are in rank order, each skill was bound (where
\* the dispatcher binds) and invoked, and a composition came after them all.
C2_EverySelectedSkillProcessed ==
    (RequestEnded /\ selected_tools # <<>>) =>
        /\ OutcomeEntries = SelectedNames
        /\ ninvoke = Len(selected_tools)
        /\ (nb = "semantic" => nbind = Len(selected_tools))

\* The exceptions of one skill's attempt: bind's, the tool lookup's, the tool's.
SkillLocalErrors == {"JSONDecodeError", "AttributeError", "ValueError", "OtherError", "KeyError"}

\* C3 (the claim as stated): a failure of one selected skill's attempt (in
\* bind or in the invocation) never ends the request: it is recorded in the
\* transcript and the skills ranked after it are attempted.
C3_LocalFailureIsolated ==
    (selected_tools # <<>> /\ pc = "crashed") => error \notin SkillLocalErrors

\* C4 (the claim as stated): once skills were selected, the ended request has
\* reached the final-answer composition.
C4_CompositionReached ==
    (RequestEnded /\ selected_tools # <<>>) => ncompose >= 1

\* C5 (the claim as stated): when bind fails on the model's response, it ends
\* with the typed error MalformedModelResponse, never with a raw exception.
C5_BindFailsTyped ==
    (nb = "semantic" /\ pc = "crashed" /\ nbind >= 1 /\ ninvoke = 0) =>
        error = "MalformedModelResponse"

\* C6 (the claim as stated): a selection call with top_k <= 0 fails with
\* InvalidArgument and has made no embedder call (checked on a constructed
\* registry and on the calls whose embedder did not itself fail).
C6_InvalidTopKBeforeEmbedding ==
    (built = "ok" /\ call.fn # "none" /\ call.top_k <= 0 /\ call.err # "EmbedderError") =>
        (call.err = "InvalidArgument" /\ call.embeds = 0)

\* The vectors and the position -> name list a direct call searched.
CallVecs ==
    CASE call.fn = "select_group" -> group_index.vecs
      [] call.fn = "select_tool" /\ nb = "hierarchical" -> tool_indices[call.group].vecs
      [] OTHER -> index.vecs

CallPayloads ==
    CASE call.fn = "select_group" -> group_names
      [] call.fn = "select_tool" /\ nb = "hierarchical" -> tool_indices[call.group].functions
      [] OTHER -> tool_descriptions

\* The distance of the i-th returned entry of a direct call to its query.
ReturnedDist(i) ==
    LET p == CHOOSE q \in 1..Len(CallPayloads) : CallPayloads[q] = call.out[i]
    IN  L2sqr(CallVecs[p], normalize_L2(call.query))

\* C7 (the claim as stated): a search-backed selection with k >= 1 over the
\* stored vectors V returns exactly min(k, |V|) results, in non-decreasing
\* distance to the query.
C7_SearchCountAndOrder ==
    (call.fn # "none" /\ call.err = "none" /\ call.top_k >= 1) =>
        /\ Len(call.out) = Min(call.top_k, Len(CallVecs))
        /\ \A i, j \in 1..Len(call.out) : i < j => ReturnedDist(i) <= ReturnedDist(j)

\* The search hits of a result row that are positions (not the padding -1).
ValidHits(I) == SelectSeq(I, LAMBDA idx : idx >= 0)

\* C8: the flat select_tool returns at most top_k skills, and they are the
\* search hits mapped, in rank order, to the descriptor whose description
\* produced the vector at that position.
C8_SelectMapsHitsInRankOrder ==
    /\ (nb = "semantic" /\ call.fn = "select_tool" /\ call.err = "none") =>
            /\ Len(call.out) <= call.top_k
            /\ call.out = [i \in 1..Len(ValidHits(call.I)) |-> tool_descriptions[ValidHits(call.I)[i] + 1]]
    /\ (nb = "semantic" /\ pc \in {"bind", "invoke", "done"}) => Len(selected_tools) <= 1

\* C8 witness: a call with top_k = 2 returned two skills whose rank order is
\* not their position order.
C8_Witness ==
    /\ nb = "semantic"
    /\ call.fn = "select_tool"
    /\ call.err = "none"
    /\ call.top_k = 2
    /\ Len(call.out) = 2
    /\ call.I[1] > call.I[2]

\* Selection has returned, and returned no skill.
SelectionEmpty ==
    /\ selected_tools = <<>>
    /\ \/ nb = "semantic" /\ pc = "done"
       \/ nb = "hierarchical" /\ pc = "done"
       \/ nb = "calc" /\ pc \in {"loop", "done"}

EmptyRegistry ==
    \/ nb = "semantic" /\ tool_descriptions = <<>>
    \/ nb = "hierarchical" /\ tool_groups = <<>>

\* C10 (the claim as stated): a selection on an empty registry returns the
\* empty sequence and does not end in an error, in a direct call and in the
\* dispatch cell.
C10_EmptyRegistrySelectsNothing ==
    /\ (EmptyRegistry /\ call.fn # "none" /\ call.top_k >= 1) =>
            (call.err \in {"none", "EmbedderError"} /\ call.out = <<>>)
    /\ (EmptyRegistry /\ pc = "crashed") => error = "EmbedderError"

\* bind has returned a mapping for the selected skill of the semantic request.
BindReturned == nb = "semantic" /\ nbind >= 1 /\ ~(pc = "crashed" /\ ninvoke = 0)

\* C11: the mapping bind returns has exactly the selected skill's declared
\* parameter names as its keys, whatever keys the model's well-formed payload
\* carried: in the dispatch cell, and for every tool and every payload.
C11_BindKeysAreSchema ==
    /\ BindReturned => DOMAIN args = ParameterSchema(selected_tools[1])
    /\ \A tool_name \in ToolSet, response \in Responses :
            response.kind = "object" =>
                DOMAIN determine_parameters(user_query, tool_name, response).parameters
                    = ParameterSchema(tool_name)

\* C11 witness: bind returned for trigger_zapier_webhook from a payload that
\* gave zap_id and no payload, and the tool is about to be invoked.
C11_Witness ==
    /\ nb = "semantic"
    /\ pc = "invoke"
    /\ selected_tools = <<"trigger_zapier_webhook">>
    /\ DOMAIN args = {"zap_id", "payload"}
    /\ args["zap_id"] = "model"
    /\ args["payload"] = "data=query"

\* C12 (the claim as stated): a mapping returned by bind holds a value for
\* every declared parameter of the selected skill: a parameter the payload
\* lacks is filled from its default, and where there is no default (expression
\* of query_wolfram_alpha) bind fails instead of returning it absent or null.
C12_NoNullRequiredParameter ==
    BindReturned =>
        \A p \in ParameterSchema(selected_tools[1]) :
            p \in DOMAIN args /\ args[p] # "None"

\* The typed failures a request may end with.
ErrorTaxonomy ==
    {"InvalidDimension", "EmptyRegistry", "DuplicateSkillName", "InvalidArgument",
     "MissingRequiredParameter", "MalformedModelResponse", "EmbeddingUnavailable",
     "SkillInvocationFailed"}

\* C13 (the claim as stated): a request that did not end normally ended with
\* a typed failure of the error taxonomy; no step of select, bind, invoke or
\* compose ends it with a raw exception.
C13_NoRawFault ==
    RequestEnded => (pc = "done" /\ error = "none") \/ error \in ErrorTaxonomy

\* C14 (the claim as stated): a failure of the embedder while the query is
\* embedded reaches the caller as the failure EmbeddingUnavailable, not as the
\* embedder's own exception; the request then ends as failed (not in the "no
\* skill selected" outcome) with nothing bound and nothing invoked.
C14_EmbedderFailureTyped ==
    /\ RequestEnded => error # "EmbedderError"
    /\ error \in {"EmbedderError", "EmbeddingUnavailable"} =>
            (pc = "crashed" /\ nbind = 0 /\ ninvoke = 0)

\* C15: once construction has finished, no step (a selection call or a step
\* of a dispatch cell) changes the registry or an index: the configuration,
\* the stored vectors and their order, and the position -> name mappings stay
\* what construction left.
C15_QueriesLeaveRegistryUnchanged ==
    [][built # "no" =>
          /\ tool_descriptions' = tool_descriptions
          /\ tool_groups' = tool_groups
          /\ built' = built
          /\ construction_error' = construction_error
          /\ index' = index
          /\ group_names' = group_names
          /\ group_index' = group_index
          /\ tool_indices' = tool_indices]_vars

\* C15 witness: on a flat registry that holds a vector of length 2, a direct
\* select_tool call with top_k = 2 has returned two skills.
C15_Witness ==
    /\ nb = "semantic"
    /\ built = "ok"
    /\ \E i \in 1..Len(index.vecs) : index.vecs[i] = <<2, 0>>
    /\ call.fn = "select_tool"
    /\ call.err = "none"
    /\ Len(call.out) = 2

\* Every skill (flat), or every group and every member of a group
\* (hierarchical), has its vector in the index it belongs to.
EverythingIndexed ==
    /\ nb = "semantic" => index.defined /\ Len(index.vecs) = Len(tool_descriptions)
    /\ nb = "hierarchical" =>
          /\ group_index.defined
          /\ Len(group_index.vecs) = Len(tool_groups)
          /\ \A i \in 1..Len(tool_groups) :
                tool_groups[i].tools # <<>> =>
                    /\ tool_groups[i].name \in DOMAIN tool_indices
                    /\ tool_indices[tool_groups[i].name].functions = tool_groups[i].tools
                    /\ Len(tool_indices[tool_groups[i].name].vecs) = Len(tool_groups[i].tools)

\* C17 (the claim as stated): when the construction cells have run, either
\* the registry is complete, or construction failed with one of the typed
\* construction errors and no selection call returns a result afterwards.
C17_ConstructionCompleteOrTypedError ==
    built # "no" =>
        \/ built = "ok" /\ construction_error = "none" /\ EverythingIndexed
        \/ /\ built = "failed"
           /\ construction_error \in {"EmptyRegistry", "DuplicateSkillName"}
           /\ call.err # "none" \/ call.fn = "none"

\* A vector is of unit length (or the zero vector, which normalization leaves).
IsNormalized(v) == normalize_L2(v) = v

\* C19 (the claim as stated): every vector an index holds was L2-normalized
\* before it was added, in the flat index, the group index and every
\* per-group tool index.
C19_StoredVectorsNormalized ==
    built = "ok" =>
        /\ \A i \in 1..Len(index.vecs) : IsNormalized(index.vecs[i])
        /\ \A i \in 1..Len(group_index.vecs) : IsNormalized(group_index.vecs[i])
        /\ \A g \in DOMAIN tool_indices :
              \A i \in 1..Len(tool_indices[g].vecs) : IsNormalized(tool_indices[g].vecs[i])

\* C20: in a constructed registry every position of a vector store denotes
\* the skill or group whose description was embedded at that place of the
\* insertion order: index_to_tool agrees with the order of tool_descriptions,
\* group_names with the order of tool_groups, and each group's functions with
\* the order of the group's tools; this holds in every state after
\* construction.
C20_PositionsDenoteInsertionOrder ==
    built = "ok" =>
        /\ nb = "semantic" =>
              /\ Len(index.vecs) = Len(tool_descriptions)
              /\ \A p \in Positions(index.vecs) :
                    p \in DOMAIN index_to_tool /\ index_to_tool[p] = tool_descriptions[p + 1]
        /\ nb = "hierarchical" =>
              /\ Len(group_names) = Len(group_index.vecs)
              /\ \A p \in Positions(group_index.vecs) : group_names[p + 1] = tool_groups[p + 1].name
              /\ \A g \in DOMAIN tool_indices :
                    /\ Len(tool_indices[g].functions) = Len(tool_indices[g].vecs)
                    /\ \A p \in Positions(tool_indices[g].vecs) :
                          tool_indices[g].functions[p + 1] = GroupTools(tool_groups, g)[p + 1]

\* C20 witness: a hierarchical registry with a group of two tools whose
\* vectors differ, after a select_group call that returned two groups.
C20_Witness ==
    /\ nb = "hierarchical"
    /\ built = "ok"
    /\ "Computation" \in DOMAIN tool_indices
    /\ Len(tool_indices["Computation"].functions) = 2
    /\ tool_indices["Computation"].vecs[1] # tool_indices["Computation"].vecs[2]
    /\ call.fn = "select_group"
    /\ call.err = "none"
    /\ Len(call.out) = 2

\* C21 (the claim as stated): a hierarchical request whose first stage gave no
\* group (and whose embedder did not fail) ends in the empty-result state: the
\* "no group" line is printed, no error ends the cell, the per-group search is
\* not run and no skill is invoked.
C21_NoGroupEndsEmpty ==
    (nb = "hierarchical" /\ RequestEnded /\ selected_group = "" /\ error # "EmbedderError") =>
        /\ pc = "done"
        /\ error = "none"
        /\ Last(printed).kind = "no_group"
        /\ selected_tools = <<>>
        /\ nembed = 1
        /\ ninvoke = 0

C24_NoDuplicateNoPadding ==
    (call.fn # "none" /\ call.err = "none") =>
        /\ \A i, j \in 1..Len(call.out) : i # j => call.out[i] # call.out[j]
        /\ Len(call.out) = Len(ValidHits(call.I))
        /\ \A i \in 1..Len(call.out) : call.out[i] = CallPayloads[ValidHits(call.I)[i] + 1]

\* C25 (the claim as stated): in a constructed hierarchical registry every
\* group name the first stage can return has an entry in tool_indices, and
\* the second stage never ends with a missing-group error, in a direct call
\* with a configured group name or in the dispatch cell.
C25_EveryGroupHasToolIndex ==
    (nb = "hierarchical" /\ built = "ok") =>
        /\ \A p \in 1..Len(group_names) : group_names[p] \in DOMAIN tool_indices
        /\ (call.fn = "select_tool" /\ \E p \in 1..Len(group_names) : group_names[p] = call.group) =>
                call.err # "KeyError"
        /\ error # "KeyError"

\* The tools the loop of the session's notebook can dispatch to.
RegisteredTools == IF nb = "calc" THEN CalcTools ELSE {WebTool}

\* C26 (the claim as stated): in a function-calling request the transcript is
\* the user message, the model message, then one tool message per tool call
\* handled so far, in tool-call order, each from the tool whose name is the
\* call's name in lower case; composition happens once, when all n tool
\* messages are there; and no tool is invoked for a call that names a tool
\* that is not registered.
C26_LoopTranscript ==
    nb \in {"calc", "websurfing"} =>
        /\ pc \in {"loop", "done"} =>
              /\ Len(messages) >= 2
              /\ messages[1].role = "human"
              /\ messages[2].role = "ai"
              /\ \A i \in 1..Len(ToolMessages(messages)) :
                    /\ i <= Len(selected_tools)
                    /\ ToolMessages(messages)[i].role = "tool"
                    /\ ToolMessages(messages)[i].call = i
                    /\ ToolMessages(messages)[i].name = Lower(selected_tools[i])
        /\ pc = "done" =>
              /\ Len(ToolMessages(messages)) = Len(selected_tools)
              /\ ninvoke = Len(selected_tools)
              /\ ncompose = 1
              /\ Last(printed).kind = "answer"
        /\ pc # "done" => ncompose = 0
        /\ \A i \in 1..ninvoke : Lower(selected_tools[i]) \in RegisteredTools

====
